---- MODULE Spec2Model ----
(***************************************************************************)
(* Sentiment dataset scripts: the class sampler of process_csv.py, the     *)
(* interleave-and-split of create_dataset.py and the two text normalizers  *)
(* (process_csv.clean_text, hello.clean_text).                             *)
(*                                                                         *)
(* Three specifications share the module, one per script:                  *)
(*   Spec          process_and_save_sample, one call for one class         *)
(*   AssembleSpec  create_sentiment_datasets, one call                      *)
(*   CleanSpec     clean_text applied to a text, and to its own result      *)
(***************************************************************************)
EXTENDS Integers, Sequences, FiniteSets

\* ---------------------------------------------------------------- bounds
\* Row index labels of the bucket are drawn from 0..MaxLabel.
MaxLabel == 4
\* sample_size (the target count) is drawn from 1..MaxTarget.
MaxTarget == 2
\* Each class CSV yields 0..MaxClassLen examples.
MaxClassLen == 3
\* A raw text has at most MaxTextLen characters.
MaxTextLen == 4

\* ------------------------------------------------------- program constants
\* process_csv.py line 29
max_attempts == 3

VARIABLES
    \* process_and_save_sample ------------------------------------------
    df_filtered,      \* index label -> which text column survives cleaning
    sample_size,      \* the target count
    final_sample_df,  \* accumulated rows; pandas index i is position i+1
    sample_df,        \* the rows drawn in the current round, in draw order
    attempts,
    pc,               \* position in process_and_save_sample
    output_df,        \* the rows written by to_csv (<<>> when none)
    warned,           \* the "Warning: Only ..." line was printed
    drawn,            \* history: labels drawn in the rounds completed so far
    \* create_sentiment_datasets ----------------------------------------
    train_ratio,      \* the ratio arguments, as decimal literals in hundredths
    test_ratio,
    val_ratio,
    preexisting,      \* output_dir and its six files existed before the call
    dpc,              \* position in create_sentiment_datasets
    csv_reads,        \* the class CSVs load_sentiment_data has read
    negative_texts, negative_labels,
    neutral_texts, neutral_labels,
    positive_texts, positive_labels,
    final_texts, final_labels,
    train_end, test_end,
    datasets,         \* split name -> [texts, labels]
    split_i,          \* which item of datasets the write loop is at
    dir_exists,       \* output_dir exists
    files,            \* file name -> its lines, or NoFile
    \* clean_text --------------------------------------------------------
    raw_text,         \* the text given to clean_text, a sequence of characters
    cleaner,          \* which clean_text is applied: process_csv's or hello's
    cleaned           \* the results so far: clean_text(raw_text), then of that

samplerVars == <<df_filtered, sample_size, final_sample_df, sample_df,
                 attempts, pc, output_df, warned, drawn>>

ratioVars == <<train_ratio, test_ratio, val_ratio, preexisting>>

loadedVars == <<negative_texts, negative_labels, neutral_texts, neutral_labels,
                positive_texts, positive_labels>>

splitVars == <<final_texts, final_labels, train_end, test_end, datasets>>

assembleVars == <<ratioVars, dpc, csv_reads, loadedVars, splitVars, split_i,
                  dir_exists, files>>

cleanVars == <<raw_text, cleaner, cleaned>>

vars == <<samplerVars, assembleVars, cleanVars>>

\* ---------------------------------------------------------------- helpers
Min(a, b) == IF a <= b THEN a ELSE b

\* The sequences of n distinct elements of S: what DataFrame.sample(n) can
\* return, any n rows in any order.
InjSeqs(S, n) ==
    { s \in [1..n -> S] : \A i, j \in 1..n : i # j => s[i] # s[j] }

RECURSIVE SelectSeq2(_, _)
\* s without the elements for which Keep is false (boolean-mask indexing).
SelectSeq2(s, keep) ==
    IF s = <<>> THEN <<>>
    ELSE IF keep[Head(s)] THEN <<Head(s)>> \o SelectSeq2(Tail(s), keep)
         ELSE SelectSeq2(Tail(s), keep)

\* ------------------------------------------------- Python float arithmetic
\* create_dataset.py computes with Python floats (IEEE 754 binary64, round to
\* nearest even).  A natural number is a sequence of limbs (digits in base
\* LimbBase), least significant first, without leading zero limbs; a float
\* is [neg, mag] with value (-1)^neg * mag * LimbBase^-FracLimbs.  Every
\* value that occurs (a ratio literal in hundredths, a sum of ratios, an int
\* times a ratio) is a multiple of LimbBase^-FracLimbs, so the only rounding
\* is the one to MantissaBits significant bits.

\* binary64 holds 53 significant bits.
MantissaBits == 53

\* A limb holds 13 bits.
LimbBits == 13
LimbBase == 8192

\* 65 fraction bits: the least literal, 0.01, has its 53 bits above 2^-60.
FracLimbs == 5

Abs(x) == IF x < 0 THEN -x ELSE x

Zeros(k) == [i \in 1..k |-> 0]

RECURSIVE Pow2(_)
Pow2(j) == IF j = 0 THEN 1 ELSE 2 * Pow2(j - 1)

RECURSIVE BitLen(_)
\* the number of bits of a natural below LimbBase
BitLen(x) == IF x = 0 THEN 0 ELSE 1 + BitLen(x \div 2)

RECURSIVE Trim(_)
Trim(a) ==
    IF a = <<>> THEN <<>>
    ELSE IF a[Len(a)] = 0 THEN Trim(SubSeq(a, 1, Len(a) - 1))
    ELSE a

RECURSIVE NatLimbs(_)
NatLimbs(n) ==
    IF n = 0 THEN <<>> ELSE <<n % LimbBase>> \o NatLimbs(n \div LimbBase)

RECURSIVE LimbsNat(_)
LimbsNat(a) == IF a = <<>> THEN 0 ELSE Head(a) + LimbBase * LimbsNat(Tail(a))

HeadOr0(a) == IF a = <<>> THEN 0 ELSE Head(a)
TailOrEmpty(a) == IF a = <<>> THEN <<>> ELSE Tail(a)

RECURSIVE BAddC(_, _, _)
\* a + b + carry
BAddC(a, b, c) ==
    IF a = <<>> /\ b = <<>> THEN (IF c = 0 THEN <<>> ELSE <<c>>)
    ELSE LET d == HeadOr0(a) + HeadOr0(b) + c
         IN  <<d % LimbBase>> \o
             BAddC(TailOrEmpty(a), TailOrEmpty(b), d \div LimbBase)

RECURSIVE BSubB(_, _, _)
\* a - b - borrow, for a >= b + borrow
BSubB(a, b, br) ==
    IF a = <<>> THEN <<>>
    ELSE LET d == Head(a) - HeadOr0(b) - br
         IN  <<d % LimbBase>> \o
             BSubB(Tail(a), TailOrEmpty(b), IF d < 0 THEN 1 ELSE 0)

RECURSIVE BLess(_, _)
\* a < b, both without leading zero limbs
BLess(a, b) ==
    IF Len(a) # Len(b) THEN Len(a) < Len(b)
    ELSE IF a = <<>> THEN FALSE
    ELSE IF a[Len(a)] # b[Len(b)] THEN a[Len(a)] < b[Len(b)]
    ELSE BLess(Trim(SubSeq(a, 1, Len(a) - 1)), Trim(SubSeq(b, 1, Len(b) - 1)))

RECURSIVE BMulSmall(_, _, _)
\* a * n + c for a small natural n
BMulSmall(a, n, c) ==
    IF a = <<>> THEN NatLimbs(c)
    ELSE LET d == Head(a) * n + c
         IN  <<d % LimbBase>> \o BMulSmall(Tail(a), n, d \div LimbBase)

\* the number of bits of a
BitLength(a) ==
    IF a = <<>> THEN 0 ELSE LimbBits * (Len(a) - 1) + BitLen(a[Len(a)])

\* Round to nearest, ties to even, keeping MantissaBits significant bits;
\* sticky says that the exact value lies above a by less than one unit.
RoundNearestEven(a, sticky) ==
    IF BitLength(a) <= MantissaBits THEN a
    ELSE LET drop  == BitLength(a) - MantissaBits
             dl    == drop \div LimbBits
             db    == drop % LimbBits
             gl    == (drop - 1) \div LimbBits
             gb    == (drop - 1) % LimbBits
             guard == (a[gl + 1] \div Pow2(gb)) % 2
             st    == \/ sticky
                      \/ a[gl + 1] % Pow2(gb) # 0
                      \/ \E i \in 1..gl : a[i] # 0
             lsb   == (a[dl + 1] \div Pow2(db)) % 2
             trunc == [i \in 1..Len(a) |->
                         IF i <= dl THEN 0
                         ELSE IF i = dl + 1 THEN a[i] - (a[i] % Pow2(db))
                         ELSE a[i]]
             ulp   == [i \in 1..(dl + 1) |-> IF i = dl + 1 THEN Pow2(db) ELSE 0]
         IN  IF guard = 1 /\ (st \/ lsb = 1) THEN BAddC(trunc, ulp, 0) ELSE trunc

RECURSIVE LongDivLimbs(_, _)
\* The first k fraction limbs of r/100 (0 <= r < 100), least significant
\* first.
LongDivLimbs(r, k) ==
    IF k = 0 THEN <<>>
    ELSE LongDivLimbs((r * LimbBase) % 100, k - 1) \o <<(r * LimbBase) \div 100>>

RECURSIVE LongDivRem(_, _)
LongDivRem(r, k) == IF k = 0 THEN r ELSE LongDivRem((r * LimbBase) % 100, k - 1)

\* The float a decimal literal h/100 denotes (correctly rounded).
FloatOfHundredths(h) ==
    LET q == Trim(LongDivLimbs(Abs(h) % 100, FracLimbs) \o NatLimbs(Abs(h) \div 100))
        m == RoundNearestEven(q, LongDivRem(Abs(h) % 100, FracLimbs) # 0)
    IN  [neg |-> h < 0 /\ m # <<>>, mag |-> m]

\* a + b
FloatAdd(a, b) ==
    IF a.neg = b.neg
    THEN [neg |-> a.neg, mag |-> RoundNearestEven(BAddC(a.mag, b.mag, 0), FALSE)]
    ELSE IF BLess(a.mag, b.mag)
    THEN [neg |-> b.neg,
          mag |-> RoundNearestEven(Trim(BSubB(b.mag, a.mag, 0)), FALSE)]
    ELSE LET m == RoundNearestEven(Trim(BSubB(a.mag, b.mag, 0)), FALSE)
         IN  [neg |-> a.neg /\ m # <<>>, mag |-> m]

\* n * a for an int n >= 0: float(n) is exact, the product is rounded once.
IntTimesFloat(n, a) ==
    LET m == RoundNearestEven(Trim(BMulSmall(a.mag, n, 0)), FALSE)
    IN  [neg |-> a.neg /\ m # <<>>, mag |-> m]

\* round(a) in place of int(a): half a unit or more rounds away from zero
IntOfFloat_round(a) ==
    LET v == IF Len(a.mag) > FracLimbs
             THEN LimbsNat(SubSeq(a.mag, FracLimbs + 1, Len(a.mag)))
             ELSE 0
        r == IF Len(a.mag) >= FracLimbs /\ 2 * a.mag[FracLimbs] >= LimbBase
             THEN v + 1 ELSE v
    IN  IF a.neg THEN -r ELSE r

\* int(a): truncation towards zero
IntOfFloat(a) ==
    LET v == IF Len(a.mag) > FracLimbs
             THEN LimbsNat(SubSeq(a.mag, FracLimbs + 1, Len(a.mag)))
             ELSE 0
    IN  IF a.neg THEN -v ELSE v

\* the float 1.0
FloatOne == [neg |-> FALSE, mag |-> Zeros(FracLimbs) \o <<1>>]

\* ------------------------------------------------ process_and_save_sample
\* What cleaning leaves of a source row: "text" when clean_text(review_text)
\* is non-empty, "processed" when only clean_text(review_text_processed) is,
\* "empty" when both are empty.
RowKinds == {"text", "processed", "empty"}

Labels == 0..MaxLabel

\* len(df_filtered)
LenDf == Cardinality(DOMAIN df_filtered)

\* int(x * 1.5) and int(x * 1.8) for a non-negative int x: the products are
\* at or just above k*3/2 and k*9/5 and int() truncates.
IntTimes15(x) == (3 * x) \div 2

\* ceil(x * 1.8) in place of int(x * 1.8)
IntTimes18_ceil(x) == (9 * x + 4) \div 5

IntTimes18(x) == (9 * x) \div 5

\* line 26
initial_sample_size == Min(IntTimes15(sample_size), LenDf)

\* line 34
needed_samples == sample_size - Len(final_sample_df)

\* line 41
remaining_data == LenDf - Len(final_sample_df)

\* lines 37-42
current_sample_size ==
    IF attempts = 0 THEN initial_sample_size
    ELSE Min(IntTimes18(needed_samples), remaining_data)

\* final_sample_df.index: concat(..., ignore_index=True) at line 79 renumbers
\* the accumulated rows 0..len-1.
FinalIndex == 0 .. (Len(final_sample_df) - 1)

\* line 48: df_filtered.drop(labels) raises KeyError when a label is not in
\* df_filtered's index.
DropRaises == final_sample_df # <<>> /\ ~(FinalIndex \subseteq DOMAIN df_filtered)

\* line 48: the labels of available_df.
AvailableLabels ==
    IF final_sample_df # <<>> THEN (DOMAIN df_filtered) \ FinalIndex
    ELSE DOMAIN df_filtered

\* line 32
LoopCond == Len(final_sample_df) < sample_size /\ attempts < max_attempts

SamplerInit ==
    /\ \E idx \in SUBSET Labels : df_filtered \in [idx -> RowKinds]
    /\ sample_size \in 1..MaxTarget
    /\ final_sample_df = <<>>
    /\ sample_df = <<>>
    /\ attempts = 0
    /\ pc = "start"
    /\ output_df = <<>>
    /\ warned = FALSE
    /\ drawn = {}

\* lines 20-22: an empty bucket returns at once.
ReturnEmptyBucket ==
    /\ pc = "start"
    /\ LenDf = 0
    /\ pc' = "returned"
    /\ UNCHANGED <<df_filtered, sample_size, final_sample_df, sample_df,
                   attempts, output_df, warned, drawn>>
    /\ UNCHANGED <<assembleVars, cleanVars>>

\* lines 24-30
EnterLoop ==
    /\ pc = "start"
    /\ LenDf # 0
    /\ pc' = "loop"
    /\ UNCHANGED <<df_filtered, sample_size, final_sample_df, sample_df,
                   attempts, output_df, warned, drawn>>
    /\ UNCHANGED <<assembleVars, cleanVars>>

\* line 32: the while condition fails.
LoopExit ==
    /\ pc = "loop"
    /\ ~LoopCond
    /\ pc' = "finish"
    /\ UNCHANGED <<df_filtered, sample_size, final_sample_df, sample_df,
                   attempts, output_df, warned, drawn>>
    /\ UNCHANGED <<assembleVars, cleanVars>>

\* lines 44-45, 50-51: break out of the loop.
LoopBreak ==
    /\ pc = "loop"
    /\ LoopCond
    /\ \/ current_sample_size <= 0
       \/ (~DropRaises /\ AvailableLabels = {})
    /\ pc' = "finish"
    /\ UNCHANGED <<df_filtered, sample_size, final_sample_df, sample_df,
                   attempts, output_df, warned, drawn>>
    /\ UNCHANGED <<assembleVars, cleanVars>>

\* line 48: drop() raises KeyError; the exception leaves the function.
DropKeyError ==
    /\ pc = "loop"
    /\ LoopCond
    /\ current_sample_size > 0
    /\ DropRaises
    /\ pc' = "KeyError"
    /\ UNCHANGED <<df_filtered, sample_size, final_sample_df, sample_df,
                   attempts, output_df, warned, drawn>>
    /\ UNCHANGED <<assembleVars, cleanVars>>

\* lines 32-56: one draw.
Draw ==
    /\ pc = "loop"
    /\ LoopCond
    /\ current_sample_size > 0
    /\ ~DropRaises
    /\ AvailableLabels # {}
    /\ \E s \in InjSeqs(AvailableLabels,
                        Min(current_sample_size, Cardinality(AvailableLabels))) :
          sample_df' = s
    /\ pc' = "clean"
    /\ UNCHANGED <<df_filtered, sample_size, final_sample_df, attempts,
                   output_df, warned, drawn>>
    /\ UNCHANGED <<assembleVars, cleanVars>>

\* lines 58-76: the drawn rows that keep a non-empty final_text, each with
\* the column the text came from.
Cleaned(s) ==
    [ i \in DOMAIN SelectSeq2(s, [l \in DOMAIN df_filtered |-> df_filtered[l] # "empty"]) |->
        LET l == SelectSeq2(s, [k \in DOMAIN df_filtered |-> df_filtered[k] # "empty"])[i]
        IN  [src |-> l, final_text |-> df_filtered[l]] ]

\* lines 58-83: clean, filter, accumulate, count the attempt.
CleanAndAccumulate ==
    /\ pc = "clean"
    /\ final_sample_df' = final_sample_df \o Cleaned(sample_df)
    /\ attempts' = attempts + 1
    /\ drawn' = drawn \cup { sample_df[i] : i \in DOMAIN sample_df }
    /\ sample_df' = <<>>
    /\ pc' = "loop"
    /\ UNCHANGED <<df_filtered, sample_size, output_df, warned>>
    /\ UNCHANGED <<assembleVars, cleanVars>>

\* lines 86-87: final_sample_df.sample(n=sample_size): any sample_size of the
\* accumulated rows, in any order.
Truncations ==
    IF Len(final_sample_df) > sample_size
    THEN { [ i \in 1..sample_size |-> final_sample_df[p[i]] ] :
             p \in InjSeqs(DOMAIN final_sample_df, sample_size) }
    ELSE { final_sample_df }

\* lines 85-107: truncate, then return without a file when nothing survived,
\* else save and warn about a shortfall.
Finish ==
    /\ pc = "finish"
    /\ \E t \in Truncations :
          /\ final_sample_df' = t
          /\ IF t = <<>>
             THEN /\ pc' = "returned"
                  /\ UNCHANGED <<output_df, warned>>
             ELSE /\ output_df' = t
                  /\ warned' = (Len(t) < sample_size)
                  /\ pc' = "saved"
    /\ UNCHANGED <<df_filtered, sample_size, sample_df, attempts, drawn>>
    /\ UNCHANGED <<assembleVars, cleanVars>>

SamplerNext ==
    \/ ReturnEmptyBucket
    \/ EnterLoop
    \/ LoopExit
    \/ LoopBreak
    \/ DropKeyError
    \/ Draw
    \/ CleanAndAccumulate
    \/ Finish

\* ---------------------------------------------- create_sentiment_datasets
\* The ratio arguments the call is given, as decimal literals in hundredths
\* (0.8 is 80).  The docstring documents the range 0.0-1.0; the code checks
\* only the sum, so a caller can pass a value outside it.
RatioHundredths == {-25, 0, 10, 17, 20, 33, 50, 70, 75, 80}

\* the polarity each class CSV carries (line 73)
Polarity(c) == IF c = "neg" THEN 0 ELSE IF c = "neu" THEN 1 ELSE 2

SplitNames == <<"train", "test", "val">>

\* a file is [exists, lines]
NoFile == [exists |-> FALSE, lines |-> <<>>]

\* os.path.join(output_dir, f'{name}_text.txt'), f'{name}_labels.txt'
TextPath(name) == <<name, "text">>
LabelsPath(name) == <<name, "labels">>

FileNames == { TextPath(SplitNames[i]) : i \in 1..3 } \cup
             { LabelsPath(SplitNames[i]) : i \in 1..3 }

\* what an earlier run left in output_dir: one example of its own
StaleFile(f) ==
    [exists |-> TRUE,
     lines |-> IF f[2] = "text" THEN <<[ex |-> <<"old", 1>>, part |-> 1]>>
               ELSE <<[ex |-> <<"old", 1>>, label |-> 0]>>]

InitialFiles == [f \in FileNames |-> IF preexisting THEN StaleFile(f) ELSE NoFile]

\* the floats the ratio literals denote
RatioFloat == [h \in RatioHundredths |-> FloatOfHundredths(h)]

\* a + b + c, added left to right
RatioSum ==
    [a \in RatioHundredths, b \in RatioHundredths, c \in RatioHundredths |->
        FloatAdd(FloatAdd(RatioFloat[a], RatioFloat[b]), RatioFloat[c])]

\* int(n * a) and int(n * (a + b)) for the lengths n that occur
IntOfProduct ==
    [n \in 0..(3 * MaxClassLen), a \in RatioHundredths |->
        IntOfFloat(IntTimesFloat(n, RatioFloat[a]))]

IntOfProductOfSum ==
    [n \in 0..(3 * MaxClassLen), a \in RatioHundredths, b \in RatioHundredths |->
        IntOfFloat(IntTimesFloat(n, FloatAdd(RatioFloat[a], RatioFloat[b])))]

\* the sum compared as decimals, without the float rounding
RatiosSumToOne_decimal == train_ratio + test_ratio + val_ratio = 100

\* line 32: train_ratio + test_ratio + val_ratio == 1.0, in float arithmetic
RatiosSumToOne == RatioSum[train_ratio, test_ratio, val_ratio] = FloatOne

AssembleInit ==
    /\ train_ratio \in RatioHundredths
    /\ test_ratio \in RatioHundredths
    /\ val_ratio \in RatioHundredths
    /\ preexisting \in BOOLEAN
    /\ dpc = "start"
    /\ csv_reads = {}
    /\ negative_texts = <<>> /\ negative_labels = <<>>
    /\ neutral_texts = <<>> /\ neutral_labels = <<>>
    /\ positive_texts = <<>> /\ positive_labels = <<>>
    /\ final_texts = <<>> /\ final_labels = <<>>
    /\ train_end = 0 /\ test_end = 0
    /\ datasets = <<>>
    /\ split_i = 0
    /\ dir_exists = preexisting
    /\ files = InitialFiles

\* lines 32-34: the ratios do not sum to 1.0; print and return.
RejectRatios ==
    /\ dpc = "start"
    /\ ~RatiosSumToOne
    /\ dpc' = "rejected"
    /\ UNCHANGED <<ratioVars, csv_reads, loadedVars, splitVars, split_i,
                   dir_exists, files>>
    /\ UNCHANGED <<samplerVars, cleanVars>>

\* lines 36-70: what load_sentiment_data returns for a class CSV that holds
\* len usable rows (none when the file is missing, lacks a column or has no
\* non-blank text).  A text is one line, or two when it holds a line break
\* (the rows in multiline); ex names the CSV row.
LoadedTexts(c, len, multiline) ==
    [k \in 1..len |-> [ex |-> <<c, k>>,
                       lines |-> IF <<c, k>> \in multiline THEN 2 ELSE 1]]

LoadedLabels(c, len) ==
    [k \in 1..len |-> [ex |-> <<c, k>>, label |-> Polarity(c)]]

\* lines 72-76: load the three class CSVs.
LoadData ==
    /\ dpc = "start"
    /\ RatiosSumToOne
    /\ \E ln, lu, lp \in 0..MaxClassLen :
       \E multiline \in {{}} \cup { {<<"neg", k>>} : k \in 1..ln }
                               \cup { {<<"neu", k>>} : k \in 1..lu }
                               \cup { {<<"pos", k>>} : k \in 1..lp } :
          /\ negative_texts' = LoadedTexts("neg", ln, multiline)
          /\ negative_labels' = LoadedLabels("neg", ln)
          /\ neutral_texts' = LoadedTexts("neu", lu, multiline)
          /\ neutral_labels' = LoadedLabels("neu", lu)
          /\ positive_texts' = LoadedTexts("pos", lp, multiline)
          /\ positive_labels' = LoadedLabels("pos", lp)
    /\ csv_reads' = {"neg", "neu", "pos"}
    /\ dpc' = "loaded"
    /\ UNCHANGED <<ratioVars, splitVars, split_i, dir_exists, files>>
    /\ UNCHANGED <<samplerVars, cleanVars>>

\* list(zip(texts, labels))
Zip(texts, labels) ==
    [k \in 1..Min(Len(texts), Len(labels)) |-> <<texts[k], labels[k]>>]

\* lines 79-90: the non-empty classes, negative, neutral, positive.
interleave_items ==
    (IF negative_texts # <<>> THEN <<Zip(negative_texts, negative_labels)>> ELSE <<>>) \o
    (IF neutral_texts # <<>> THEN <<Zip(neutral_texts, neutral_labels)>> ELSE <<>>) \o
    (IF positive_texts # <<>> THEN <<Zip(positive_texts, positive_labels)>> ELSE <<>>)

None == <<"None">>

RECURSIVE MaxLen(_)
MaxLen(lists) ==
    IF lists = <<>> THEN 0
    ELSE LET m == MaxLen(Tail(lists))
         IN  IF Len(Head(lists)) > m THEN Len(Head(lists)) ELSE m

\* zip() in place of zip_longest(): stops at the shortest list.
ZipLongest_shortest(lists) ==
    [k \in 1..(IF lists = <<>> THEN 0
               ELSE CHOOSE m \in 0..MaxLen(lists) :
                      /\ \A j \in 1..Len(lists) : Len(lists[j]) >= m
                      /\ \E j \in 1..Len(lists) : Len(lists[j]) = m) |->
        [j \in 1..Len(lists) |-> lists[j][k]]]

\* line 99: list(zip_longest(*lists)): group k holds the k-th item of every
\* list, None where a list is exhausted.
ZipLongest(lists) ==
    [k \in 1..MaxLen(lists) |->
        [j \in 1..Len(lists) |->
            IF k <= Len(lists[j]) THEN lists[j][k] ELSE None]]

RECURSIVE FlattenGroups(_)
\* lines 103-107: the items of the groups in order, None skipped.
FlattenGroups(groups) ==
    IF groups = <<>> THEN <<>>
    ELSE SelectSeq(Head(groups), LAMBDA item : item # None) \o
         FlattenGroups(Tail(groups))

\* a[lo:hi] of a Python list: a negative index counts from the end, an
\* index out of range is clamped, an empty range gives [].
PyIndex(i, n) == IF i < 0 THEN (IF i + n < 0 THEN 0 ELSE i + n) ELSE Min(i, n)

PySlice(a, lo, hi) ==
    IF PyIndex(lo, Len(a)) < PyIndex(hi, Len(a))
    THEN SubSeq(a, PyIndex(lo, Len(a)) + 1, PyIndex(hi, Len(a)))
    ELSE <<>>

\* lines 101-107
Interleaved == FlattenGroups(ZipLongest(interleave_items))

\* line 123
TrainEnd(n) == IntOfProduct[n, train_ratio]

\* int(num_samples * test_ratio): the train share left out of the boundary
TestEnd_test_only(n) == IntOfProduct[n, test_ratio]

\* line 124
TestEnd(n) == IntOfProductOfSum[n, train_ratio, test_ratio]

\* lines 92-94: nothing to interleave; print and return.
NoData ==
    /\ dpc = "loaded"
    /\ interleave_items = <<>>
    /\ dpc' = "nodata"
    /\ UNCHANGED <<ratioVars, csv_reads, loadedVars, splitVars, split_i,
                   dir_exists, files>>
    /\ UNCHANGED <<samplerVars, cleanVars>>

\* lines 98-149: interleave, split by position, create the output directory.
InterleaveAndSplit ==
    /\ dpc = "loaded"
    /\ interleave_items # <<>>
    /\ \E items \in {Interleaved} :
       \E ft \in {[i \in DOMAIN items |-> items[i][1]]} :
       \E fl \in {[i \in DOMAIN items |-> items[i][2]]} :
       \E te \in {TrainEnd(Len(ft))} :
       \E se \in {TestEnd(Len(ft))} :
           /\ final_texts' = ft
           /\ final_labels' = fl
           /\ train_end' = te
           /\ test_end' = se
           /\ datasets' =
                 [train |-> [texts |-> PySlice(ft, 0, te), labels |-> PySlice(fl, 0, te)],
                  test |-> [texts |-> PySlice(ft, te, se), labels |-> PySlice(fl, te, se)],
                  val |-> [texts |-> PySlice(ft, se, Len(ft)),
                           labels |-> PySlice(fl, se, Len(fl))]]
    /\ dir_exists' = TRUE
    /\ split_i' = 1
    /\ dpc' = "write"
    /\ UNCHANGED <<ratioVars, csv_reads, loadedVars, files>>
    /\ UNCHANGED <<samplerVars, cleanVars>>

\* after one item of datasets: the next item, or the end of the function
AfterSplit ==
    /\ split_i' = split_i + 1
    /\ dpc' = IF split_i = Len(SplitNames) THEN "done" ELSE "write"

\* lines 152-154: an empty split is skipped, no file is written for it.
SkipEmptySplit ==
    /\ dpc = "write"
    /\ datasets[SplitNames[split_i]].texts = <<>>
    /\ AfterSplit
    /\ UNCHANGED <<ratioVars, csv_reads, loadedVars, splitVars, dir_exists, files>>
    /\ UNCHANGED <<samplerVars, cleanVars>>

RECURSIVE TextFileLines(_)
\* lines 159-162: str(text_item) + '\n' for every text; a text that holds a
\* line break fills two lines of the file.
TextFileLines(texts) ==
    IF texts = <<>> THEN <<>>
    ELSE [j \in 1..Head(texts).lines |-> [ex |-> Head(texts).ex, part |-> j]] \o
         TextFileLines(Tail(texts))

\* lines 165-167: one line per label
LabelFileLines(labels) == labels

\* lines 156-168: write the split's text file and labels file.
WriteSplit ==
    /\ dpc = "write"
    /\ datasets[SplitNames[split_i]].texts # <<>>
    /\ files' = [files EXCEPT
                   ![TextPath(SplitNames[split_i])] =
                       [exists |-> TRUE,
                        lines |-> TextFileLines(datasets[SplitNames[split_i]].texts)],
                   ![LabelsPath(SplitNames[split_i])] =
                       [exists |-> TRUE,
                        lines |-> LabelFileLines(datasets[SplitNames[split_i]].labels)]]
    /\ AfterSplit
    /\ UNCHANGED <<ratioVars, csv_reads, loadedVars, splitVars, dir_exists>>
    /\ UNCHANGED <<samplerVars, cleanVars>>

AssembleNext ==
    \/ RejectRatios
    \/ LoadData
    \/ NoData
    \/ InterleaveAndSplit
    \/ SkipEmptySplit
    \/ WriteSplit

\* ---------------------------------------- create_sentiment_datasets' claims
Split(name) == datasets[name]

Ids(seq) == [i \in DOMAIN seq |-> seq[i].ex]

RECURSIVE RoundRobin(_, _, _)
\* One round takes the head of a, of b and of c, those that have one.
RoundRobin(a, b, c) ==
    IF a = <<>> /\ b = <<>> /\ c = <<>> THEN <<>>
    ELSE (IF a # <<>> THEN <<Head(a)>> ELSE <<>>) \o
         (IF b # <<>> THEN <<Head(b)>> ELSE <<>>) \o
         (IF c # <<>> THEN <<Head(c)>> ELSE <<>>) \o
         RoundRobin(TailOrEmpty(a), TailOrEmpty(b), TailOrEmpty(c))

Interleaving == dpc \in {"write", "done"}

\* C4: the interleaved sequence is the round-robin merge of the negative,
\* neutral and positive sequences in that order, exhausted classes skipped;
\* every loaded example appears exactly once, each class keeps its order, and
\* sizes 3, 2, 1 give neg1 neu1 pos1 neg2 neu2 neg3.
C4_RoundRobinInterleave ==
    Interleaving =>
        /\ final_texts = RoundRobin(negative_texts, neutral_texts, positive_texts)
        /\ final_labels = RoundRobin(negative_labels, neutral_labels, positive_labels)
        /\ Len(final_texts) =
              Len(negative_texts) + Len(neutral_texts) + Len(positive_texts)
        /\ \A i, j \in DOMAIN final_texts :
              /\ (i # j => final_texts[i].ex # final_texts[j].ex)
              /\ (i < j /\ final_texts[i].ex[1] = final_texts[j].ex[1]
                    => final_texts[i].ex[2] < final_texts[j].ex[2])
        /\ \A i \in DOMAIN final_texts : final_labels[i].ex = final_texts[i].ex
        /\ (Len(negative_texts) = 3 /\ Len(neutral_texts) = 2 /\ Len(positive_texts) = 1
              => Ids(final_texts) = << <<"neg", 1>>, <<"neu", 1>>, <<"pos", 1>>,
                                       <<"neg", 2>>, <<"neu", 2>>, <<"neg", 3>> >>)

\* Classes of sizes 3, 2, 1 have been interleaved.
C4_Witness ==
    /\ Interleaving
    /\ Len(negative_texts) = 3 /\ Len(neutral_texts) = 2 /\ Len(positive_texts) = 1
    /\ Len(final_texts) = 6

\* train = [0, train_end), test = [train_end, test_end), val = [test_end, n)
\* with the boundaries of lines 123-124: contiguous ranges in the interleaved
\* order whose concatenation is the whole sequence.
PositionalSplit ==
    /\ train_end = IntOfProduct[Len(final_texts), train_ratio]
    /\ test_end = IntOfProductOfSum[Len(final_texts), train_ratio, test_ratio]
    /\ 0 <= train_end /\ train_end <= test_end /\ test_end <= Len(final_texts)
    /\ Split("train").texts = SubSeq(final_texts, 1, train_end)
    /\ Split("test").texts = SubSeq(final_texts, train_end + 1, test_end)
    /\ Split("val").texts = SubSeq(final_texts, test_end + 1, Len(final_texts))
    /\ Split("train").labels = SubSeq(final_labels, 1, train_end)
    /\ Split("test").labels = SubSeq(final_labels, train_end + 1, test_end)
    /\ Split("val").labels = SubSeq(final_labels, test_end + 1, Len(final_labels))
    /\ Split("train").texts \o Split("test").texts \o Split("val").texts = final_texts
    /\ Len(Split("train").texts) + Len(Split("test").texts) + Len(Split("val").texts)
          = Len(final_texts)

\* floor(n * train_ratio) and floor(n * (train_ratio + test_ratio)) of the
\* decimal ratios, without the float rounding
ExactFloorBoundaries ==
    /\ train_end = (Len(final_texts) * train_ratio) \div 100
    /\ test_end = (Len(final_texts) * (train_ratio + test_ratio)) \div 100

\* C5 as stated: for every ratio triple that sums to 1 the split is the
\* positional partition train, test, val, with train_end = floor(n *
\* train_ratio) and test_end = floor(n * (train_ratio + test_ratio)).
C5_PositionalSplitAnyRatios ==
    Interleaving => (PositionalSplit /\ ExactFloorBoundaries)

\* C5 amended: for every triple of ratios in the documented range 0.0-1.0
\* whose float sum is 1.0 the split is the positional partition train, test,
\* val, with the boundaries int(n * train_ratio) and
\* int(n * (train_ratio + test_ratio)) of the float products.
C5_PositionalSplitInRange ==
    (Interleaving /\ train_ratio >= 0 /\ test_ratio >= 0 /\ val_ratio >= 0)
        => PositionalSplit

\* Ratios in range have produced three non-empty splits.
C5_Witness ==
    /\ dpc = "done"
    /\ train_ratio > 0 /\ test_ratio > 0 /\ val_ratio > 0
    /\ Split("train").texts # <<>>
    /\ Split("test").texts # <<>>
    /\ Split("val").texts # <<>>

\* the scenario: classes of sizes 3, 2, 1 and ratios 0.5, 0.33, 0.17
ScenarioSplit ==
    /\ Interleaving
    /\ train_ratio = 50 /\ test_ratio = 33 /\ val_ratio = 17
    /\ Len(negative_texts) = 3 /\ Len(neutral_texts) = 2 /\ Len(positive_texts) = 1

\* C6 as stated: the scenario gives train_end = 3, test_end = 5 and
\* train = neg1 neu1 pos1, test = neg2 neu2, val = neg3.
C6_ScenarioTestEndFive ==
    ScenarioSplit =>
        /\ train_end = 3 /\ test_end = 5
        /\ Ids(Split("train").texts) = << <<"neg", 1>>, <<"neu", 1>>, <<"pos", 1>> >>
        /\ Ids(Split("test").texts) = << <<"neg", 2>>, <<"neu", 2>> >>
        /\ Ids(Split("val").texts) = << <<"neg", 3>> >>

\* C6 amended: the scenario gives train_end = 3, test_end = 4 and
\* train = neg1 neu1 pos1, test = neg2, val = neu2 neg3.
C6_ScenarioTestEndFour ==
    ScenarioSplit =>
        /\ train_end = 3 /\ test_end = 4
        /\ Ids(Split("train").texts) = << <<"neg", 1>>, <<"neu", 1>>, <<"pos", 1>> >>
        /\ Ids(Split("test").texts) = << <<"neg", 2>> >>
        /\ Ids(Split("val").texts) = << <<"neu", 2>>, <<"neg", 3>> >>
        /\ Ids(Split("train").labels) = Ids(Split("train").texts)
        /\ Ids(Split("test").labels) = Ids(Split("test").texts)
        /\ Ids(Split("val").labels) = Ids(Split("val").texts)

\* The scenario has run to the end.
C6_Witness == ScenarioSplit /\ dpc = "done"

\* C7: after the write phase (the ratios in the documented range) every
\* split, an empty one included, has its text file and its labels file
\* written by this run, with the same number of lines, line i of both about
\* the same example.
C7_SplitFilePairs ==
    (dpc = "done" /\ train_ratio >= 0 /\ test_ratio >= 0 /\ val_ratio >= 0) =>
        \A i \in 1..3 :
            LET t == files[TextPath(SplitNames[i])]
                l == files[LabelsPath(SplitNames[i])]
            IN  /\ t.exists /\ l.exists
                /\ t # InitialFiles[TextPath(SplitNames[i])]
                /\ l # InitialFiles[LabelsPath(SplitNames[i])]
                /\ Len(t.lines) = Len(l.lines)
                /\ \A j \in DOMAIN t.lines : t.lines[j].ex = l.lines[j].ex

\* C8: ratios whose float sum is not 1.0 end the call before any work: no
\* class CSV is read, the output directory and the split files stay as they
\* were.
C8_BadRatiosDoNoWork ==
    RatioSum[train_ratio, test_ratio, val_ratio] # FloatOne
        => /\ dpc \in {"start", "rejected"}
           /\ csv_reads = {}
           /\ dir_exists = preexisting
           /\ files = InitialFiles

\* A call was rejected with the files of an earlier run in place.
C8_Witness ==
    /\ dpc = "rejected"
    /\ preexisting
    /\ \A f \in FileNames : files[f] = StaleFile(f)

\* -------------------------------------------------------------- clean_text
\* One character of each class the patterns tell apart: word characters,
\* a quote, other punctuation, a space, and a line break (whitespace that
\* the pattern '.' does not match).
WordChars == {"a", "b"}
QuoteChars == {"'"}
OtherPunct == {"!"}
Newline == "\n"
SpaceChars == {" ", Newline}
Alphabet == WordChars \cup QuoteChars \cup OtherPunct \cup SpaceChars

Strings == UNION { [1..n -> Alphabet] : n \in 0..MaxTextLen }

RECURSIVE SubChars(_, _, _)
\* re.sub of a one-character class: every character of s in chars becomes repl
SubChars(s, chars, repl) ==
    IF s = <<>> THEN <<>>
    ELSE (IF Head(s) \in chars THEN repl ELSE <<Head(s)>>) \o
         SubChars(Tail(s), chars, repl)

RECURSIVE RunLength(_)
\* how many times the first character of s is repeated at its start
RunLength(s) ==
    IF Len(s) >= 2 /\ s[2] = s[1] THEN 1 + RunLength(Tail(s)) ELSE 1

RECURSIVE CollapseRuns(_, _)
\* re.sub(r'(.)\1{k,}', r'\1', s) with minrun = k + 1: scanning from the left,
\* a run of minrun or more equal characters other than a line break becomes
\* one character.
CollapseRuns(s, minrun) ==
    IF s = <<>> THEN <<>>
    ELSE IF Head(s) # Newline /\ RunLength(s) >= minrun
    THEN <<Head(s)>> \o CollapseRuns(SubSeq(s, RunLength(s) + 1, Len(s)), minrun)
    ELSE <<Head(s)>> \o CollapseRuns(Tail(s), minrun)

RECURSIVE SpaceRunLength(_)
SpaceRunLength(s) ==
    IF s # <<>> /\ Head(s) \in SpaceChars THEN 1 + SpaceRunLength(Tail(s)) ELSE 0

RECURSIVE SubSpaceRuns(_)
\* re.sub(r'\s+', ' ', s)
SubSpaceRuns(s) ==
    IF s = <<>> THEN <<>>
    ELSE IF Head(s) \in SpaceChars
    THEN <<" ">> \o SubSpaceRuns(SubSeq(s, SpaceRunLength(s) + 1, Len(s)))
    ELSE <<Head(s)>> \o SubSpaceRuns(Tail(s))

RECURSIVE LStrip(_)
LStrip(s) == IF s # <<>> /\ Head(s) \in SpaceChars THEN LStrip(Tail(s)) ELSE s

RECURSIVE RStrip(_)
RStrip(s) ==
    IF s # <<>> /\ s[Len(s)] \in SpaceChars THEN RStrip(SubSeq(s, 1, Len(s) - 1))
    ELSE s

\* str.strip()
Strip(s) == RStrip(LStrip(s))

\* [^\w\s]
NonWordNonSpace == Alphabet \ (WordChars \cup SpaceChars)

\* process_csv.py lines 5-17, for a str argument
process_csv_clean_text(text) ==
    Strip(SubSpaceRuns(
        SubChars(CollapseRuns(SubChars(text, QuoteChars, <<" ">>), 3),
                 NonWordNonSpace, <<" ">>)))

\* hello.py lines 4-10, for a str argument
hello_clean_text(text) ==
    SubChars(SubChars(CollapseRuns(text, 2), QuoteChars, <<>>),
             NonWordNonSpace, <<>>)

\* the argument of the next application
NextArgument == IF cleaned = <<>> THEN raw_text ELSE cleaned[Len(cleaned)]

CleanInit ==
    /\ raw_text \in Strings
    /\ cleaner = "none"
    /\ cleaned = <<>>

\* process_csv.clean_text, applied to the text and then to its result
ProcessCsvCleanText ==
    /\ cleaner \in {"none", "process_csv"}
    /\ Len(cleaned) < 2
    /\ cleaner' = "process_csv"
    /\ cleaned' = Append(cleaned, process_csv_clean_text(NextArgument))
    /\ UNCHANGED <<raw_text, samplerVars, assembleVars>>

\* hello.clean_text, applied to the text and then to its result
HelloCleanText ==
    /\ cleaner \in {"none", "hello"}
    /\ Len(cleaned) < 2
    /\ cleaner' = "hello"
    /\ cleaned' = Append(cleaned, hello_clean_text(NextArgument))
    /\ UNCHANGED <<raw_text, samplerVars, assembleVars>>

CleanNext ==
    \/ ProcessCsvCleanText
    \/ HelloCleanText

\* clean_text at rest, while another script runs
CleanIdle ==
    /\ raw_text = <<>>
    /\ cleaner = "idle"
    /\ cleaned = <<>>

\* ------------------------------------------------------- clean_text's claims
\* C9: clean_text is idempotent in both configurations:
\* clean_text(clean_text(x)) = clean_text(x).
C9_CleanTextIdempotent ==
    Len(cleaned) = 2 => cleaned[2] = cleaned[1]

\* The part of C9 that holds: process_csv.clean_text is idempotent.
ProcessCsvCleanTextIdempotent ==
    (cleaner = "process_csv" /\ Len(cleaned) = 2) => cleaned[2] = cleaned[1]

\* process_and_save_sample at rest, while another script runs
SamplerIdle ==
    /\ df_filtered = <<>>
    /\ sample_size = 1
    /\ final_sample_df = <<>>
    /\ sample_df = <<>>
    /\ attempts = 0
    /\ pc = "idle"
    /\ output_df = <<>>
    /\ warned = FALSE
    /\ drawn = {}

\* create_sentiment_datasets at rest, while another script runs
AssembleIdle ==
    /\ train_ratio = 80 /\ test_ratio = 10 /\ val_ratio = 10
    /\ preexisting = FALSE
    /\ dpc = "idle"
    /\ csv_reads = {}
    /\ negative_texts = <<>> /\ negative_labels = <<>>
    /\ neutral_texts = <<>> /\ neutral_labels = <<>>
    /\ positive_texts = <<>> /\ positive_labels = <<>>
    /\ final_texts = <<>> /\ final_labels = <<>>
    /\ train_end = 0 /\ test_end = 0
    /\ datasets = <<>>
    /\ split_i = 0
    /\ dir_exists = FALSE
    /\ files = [f \in FileNames |-> NoFile]

\* ------------------------------------------------------------ the sampler's claims
\* The source rows of the bucket that cleaning does not empty.
CleanableLabels == { l \in DOMAIN df_filtered : df_filtered[l] # "empty" }

NoDuplicateSource(s) == \A i, j \in DOMAIN s : i # j => s[i].src # s[j].src

Sources(s) == { s[i].src : i \in DOMAIN s }

\* C1: the rows accumulated over the rounds and the rows written out never
\* hold the same source row twice, and a round never draws a source row that
\* an earlier round accepted.
C1_NoDuplicateSourceRows ==
    /\ NoDuplicateSource(final_sample_df)
    /\ NoDuplicateSource(output_df)
    /\ \A i \in DOMAIN sample_df : sample_df[i] \notin Sources(final_sample_df)

\* C2: a bucket with c < sample_size cleanable rows never raises; what is
\* saved is exactly those c rows, with the shortfall warning (with c = 0
\* nothing is saved).
C2_ShortBucketReturnsAllCleanable ==
    Cardinality(CleanableLabels) < sample_size =>
        /\ pc # "KeyError"
        /\ pc = "saved" =>
              /\ Len(output_df) = Cardinality(CleanableLabels)
              /\ Sources(output_df) = CleanableLabels
              /\ warned
        /\ pc = "returned" => CleanableLabels = {}

\* C3: the saved sample never has more than sample_size rows, and has
\* sample_size rows only if the bucket holds at least sample_size distinct
\* cleanable rows.
C3_LengthAtMostTarget ==
    pc = "saved" =>
        /\ Len(output_df) <= sample_size
        /\ Len(output_df) = sample_size =>
              Cardinality(CleanableLabels) >= sample_size

CeilDiv(a, b) == (a + b - 1) \div b

\* C10 as stated: the first round draws min(ceil(sample_size * 1.5), |bucket|)
\* rows and a later round min(ceil(needed * 1.8), rows not drawn in any
\* earlier round).
C10_DrawSizesCeil ==
    pc = "clean" =>
        Len(sample_df) =
            IF attempts = 0
            THEN Min(CeilDiv(3 * sample_size, 2), LenDf)
            ELSE Min(CeilDiv(9 * (sample_size - Len(final_sample_df)), 5),
                     Cardinality((DOMAIN df_filtered) \ drawn))

\* C10 amended: the first round draws min(floor(sample_size * 1.5), |bucket|)
\* rows and a later round min(floor(needed * 1.8), |bucket| - rows accepted
\* so far).
C10_DrawSizesFloor ==
    pc = "clean" =>
        Len(sample_df) =
            IF attempts = 0
            THEN Min((3 * sample_size) \div 2, Cardinality(DOMAIN df_filtered))
            ELSE Min((9 * (sample_size - Len(final_sample_df))) \div 5,
                     Cardinality(DOMAIN df_filtered) - Len(final_sample_df))

\* A later round has drawn after an earlier round accepted rows.
C10_Witness ==
    /\ pc = "clean"
    /\ attempts >= 1
    /\ final_sample_df # <<>>
    /\ Len(sample_df) >= 1

\* The rows of the bucket that no earlier round has drawn.
Undrawn == (DOMAIN df_filtered) \ drawn

\* One of the three reasons to end the rounds: the result has reached
\* sample_size, max_attempts rounds were performed, no undrawn row remains.
StopCondition ==
    \/ Len(final_sample_df) >= sample_size
    \/ attempts >= max_attempts
    \/ Undrawn = {}

\* The loop performs at most max_attempts draw rounds.
AtMostMaxAttemptsRounds == attempts <= max_attempts

\* The rounds end, by leaving the loop or by an exception, only when one of
\* the three reasons holds.
NoEarlyStop == pc \in {"finish", "KeyError"} => StopCondition

\* A round draws only when none of the three reasons holds (in "clean" the
\* round's own draw is not yet counted in attempts, final_sample_df, drawn).
NoDrawAfterStop == pc = "clean" => ~StopCondition

\* C11: the loop performs at most 3 draw rounds and ends the rounds exactly
\* when the result has reached sample_size, 3 rounds were performed or no
\* undrawn row remains: it never stops before one of these holds and never
\* draws once one of them holds.
C11_RoundsEndExactlyWhen ==
    /\ AtMostMaxAttemptsRounds
    /\ NoEarlyStop
    /\ NoDrawAfterStop

Init == SamplerInit /\ AssembleIdle /\ CleanIdle

Next == SamplerNext

Spec == Init /\ [][Next]_vars

AssembleSpecInit == AssembleInit /\ SamplerIdle /\ CleanIdle

AssembleSpec == AssembleSpecInit /\ [][AssembleNext]_vars

CleanSpecInit == CleanInit /\ SamplerIdle /\ AssembleIdle

CleanSpec == CleanSpecInit /\ [][CleanNext]_vars

====
